---- MODULE Spec2Model ----
(***************************************************************************)
(* A model of the song catalogue kept by the scraping tools: the four      *)
(* persisted documents (songs, playlists, artists, song->playlist mapping) *)
(* and the tools that load them into a working set, change it and write    *)
(* it back: the batch artist scraper (SmartSongManager,                    *)
(* process_artist_tracks, save_databases) and the playlist remover         *)
(* (PlaylistRemover).                                                      *)
(*                                                                         *)
(* Strings are sequences of one-character strings so that lower(),         *)
(* strip() and the regular expression of generate_song_id can be computed  *)
(* as the code computes them.  The md5 digest is taken to be free of       *)
(* collisions: the id is the cleaned string behind the "song_" prefix.     *)
(* A Python dict is a function; the songs dict also carries its insertion  *)
(* order, which decides the uri index when two songs share a uri.          *)
(***************************************************************************)
EXTENDS Integers, Sequences, FiniteSets, TLC

\* ---------------------------------------------------------------- bounds
\* longest track list captured for one artist
MaxBatch == 2
\* number of songs without cover art that add_cover_art_urls.py finds
MaxCoverSongs == 12

\* number of scraper runs (calls of process_artist_tracks) and cleanup runs
MaxRuns == 2

\* ---------------------------------------------------------------- strings
Uppers ==
  <<"A", "B", "C", "D", "E", "F", "G", "H", "I", "J", "K", "L", "M",
    "N", "O", "P", "Q", "R", "S", "T", "U", "V", "W", "X", "Y", "Z">>

Lowers ==
  <<"a", "b", "c", "d", "e", "f", "g", "h", "i", "j", "k", "l", "m",
    "n", "o", "p", "q", "r", "s", "t", "u", "v", "w", "x", "y", "z">>

Digits == {"0", "1", "2", "3", "4", "5", "6", "7", "8", "9"}

UpperToLower ==
  [c \in {Uppers[i] : i \in 1..26} |->
     Lowers[CHOOSE i \in 1..26 : Uppers[i] = c]]

\* str.lower() on one character
LowerChar(c) == IF c \in DOMAIN UpperToLower THEN UpperToLower[c] ELSE c

\* str.lower()
Lower(s) == [i \in 1..Len(s) |-> LowerChar(s[i])]

RECURSIVE LStrip(_)
LStrip(s) == IF s # <<>> /\ Head(s) = " " THEN LStrip(Tail(s)) ELSE s

RECURSIVE RStrip(_)
RStrip(s) ==
  IF s # <<>> /\ s[Len(s)] = " " THEN RStrip(SubSeq(s, 1, Len(s) - 1)) ELSE s

\* str.strip()
Strip(s) == RStrip(LStrip(s))

\* the characters kept by re.sub(r'[^a-z0-9_]', '', ...)
IsWordChar(c) == c \in {Lowers[i] : i \in 1..26} \cup Digits \cup {"_"}

\* ', '.join(names)
RECURSIVE Join(_)
Join(names) ==
  IF names = <<>> THEN <<>>
  ELSE IF Len(names) = 1 THEN names[1]
  ELSE names[1] \o <<",", " ">> \o Join(Tail(names))

\* a occurs in b as a contiguous substring (Python's `a in b` on strings)
IsSubstring(a, b) ==
  \E i \in 1..(Len(b) + 1) :
     /\ i + Len(a) - 1 <= Len(b)
     /\ SubSeq(b, i, i + Len(a) - 1) = a

\* ---------------------------------------------------------------- dicts
Put(f, k, v) == [x \in (DOMAIN f) \cup {k} |-> IF x = k THEN v ELSE f[x]]

Del(f, K) == [x \in (DOMAIN f) \ K |-> f[x]]

EmptyDict == [x \in {} |-> 0]

\* list.remove(x): drops the first occurrence only
RECURSIVE ListRemove(_, _)
ListRemove(l, x) ==
  IF l = <<>> THEN <<>>
  ELSE IF Head(l) = x THEN Tail(l)
  ELSE <<Head(l)>> \o ListRemove(Tail(l), x)

Range(l) == {l[i] : i \in 1..Len(l)}

\* `x in l` for a list
InList(x, l) == x \in Range(l)

NoDup(l) == \A i, j \in 1..Len(l) : l[i] = l[j] => i = j

\* ---------------------------------------------------------------- inputs
ArtistIds == {"1", "2"}

\* playlist_key = f"artist_{artist_id}"
PlaylistKey(aid) == <<"artist_", aid>>

PlaylistKeys == {PlaylistKey(a) : a \in ArtistIds}

\* artist_uri = f"spotify:artist:{artist_id}"
ArtistUri(aid) == <<"spotify:artist:", aid>>

ArtistX == [name |-> <<"X">>, uri |-> ArtistUri("1")]
ArtistY == [name |-> <<"Y">>, uri |-> ArtistUri("2")]

\* The captured track descriptors: a track with a uri, the same track
\* without one, and another title of another artist that carries the first
\* track's uri.
TrackAu == [name |-> <<"A">>, artists |-> <<ArtistX>>, uri |-> "u1"]
TrackA == [name |-> <<"A">>, artists |-> <<ArtistX>>, uri |-> ""]
TrackB == [name |-> <<"B">>, artists |-> <<ArtistY>>, uri |-> "u1"]
\* the first title as another capture spells it, with its own uri
TrackAbang == [name |-> <<"a", "!">>, artists |-> <<ArtistX>>, uri |-> "u2"]

Tracks == {TrackAu, TrackA, TrackB}

\* the tracks of the runs that study the removal of playlists
CascadeTracks == {TrackAu, TrackB}

\* one track
SoloTracks == {TrackAu}

\* two spellings of one title
SpelledTracks == {TrackA, TrackAbang}

\* captured tracks without a title, and without an artist
TrackNoTitle == [name |-> <<>>, artists |-> <<ArtistX>>, uri |-> ""]
TrackNoArtist == [name |-> <<"A">>, artists |-> <<>>, uri |-> ""]

UntitledTracks == {TrackNoTitle, TrackNoArtist, TrackA}

\* the track lists one capture can deliver: never empty (main skips an
\* artist without tracks), and a uri names one track of the capture
Batches(track_set) ==
  {tracks \in UNION {[1..n -> track_set] : n \in 1..MaxBatch} :
     \A i, j \in 1..Len(tracks) :
        (tracks[i].uri # "" /\ tracks[i].uri = tracks[j].uri) => tracks[i] = tracks[j]}


\* ------------------------------------------------- SmartSongManager (pure)
\* safe_get(data, ..., default): the default replaces a missing, None or
\* blank value
safe_get(value, default) == IF Strip(value) = <<>> THEN default ELSE value

UnknownTrack ==
  <<"U", "n", "k", "n", "o", "w", "n", " ", "T", "r", "a", "c", "k">>
UnknownArtist ==
  <<"U", "n", "k", "n", "o", "w", "n", " ", "A", "r", "t", "i", "s", "t">>

\* generate_song_id: lower-case, drop every character outside [a-z0-9_],
\* digest (collision-free), prefix
generate_song_id(track_name, artists) ==
  <<"song_">> \o SelectSeq(Lower(track_name \o <<"_">> \o artists), IsWordChar)

\* the name+artist lookup key of load_existing_databases and find_existing_song;
\* <<>> when the code builds no key (blank name or blank artists)
NameArtistKey(track_name, artists) ==
  LET n == Strip(Lower(track_name))
      a == Strip(Lower(artists))
  IN IF n # <<>> /\ a # <<>> THEN n \o <<"|">> \o a ELSE <<>>

\* the uri index built while loading: a later song of the file replaces an
\* earlier one with the same uri
RECURSIVE BuildUriIndex(_, _, _)
BuildUriIndex(songs, order, acc) ==
  IF order = <<>> THEN acc
  ELSE LET u == songs[Head(order)].metadata.track_uri
       IN BuildUriIndex(songs, Tail(order),
                        IF u # "" THEN Put(acc, u, Head(order)) ELSE acc)

RECURSIVE BuildNameIndex(_, _, _)
BuildNameIndex(songs, order, acc) ==
  IF order = <<>> THEN acc
  ELSE LET m == songs[Head(order)].metadata
           k == NameArtistKey(m.track_name, m.artists_string)
       IN BuildNameIndex(songs, Tail(order),
                         IF k # <<>> THEN Put(acc, k, Head(order)) ELSE acc)

NotFound == <<>>

\* find_existing_song with the name+artist key consulted before the uri
find_existing_song_name_first(uri_index, name_index, track_info) ==
  LET k == NameArtistKey(track_info.track_name, track_info.artists_string)
  IN IF k # <<>> /\ k \in DOMAIN name_index
       THEN name_index[k]
     ELSE IF track_info.track_uri # "" /\ track_info.track_uri \in DOMAIN uri_index
       THEN uri_index[track_info.track_uri]
     ELSE NotFound

\* find_existing_song: the song id found, or NotFound
find_existing_song(uri_index, name_index, track_info) ==
  LET k == NameArtistKey(track_info.track_name, track_info.artists_string)
  IN IF track_info.track_uri # "" /\ track_info.track_uri \in DOMAIN uri_index
       THEN uri_index[track_info.track_uri]
     ELSE IF k # <<>> /\ k \in DOMAIN name_index
       THEN name_index[k]
     ELSE NotFound

\* add_playlist_to_song: the value it returns
add_playlist_returns(songs, song_id, playlist_id) ==
  /\ song_id \in DOMAIN songs
  /\ ~InList(playlist_id, songs[song_id].playlists)

\* add_playlist_to_song without the membership test
add_playlist_to_song_always_appends(songs, song_id, playlist_id) ==
  IF song_id \in DOMAIN songs
    THEN [songs EXCEPT ![song_id].playlists = Append(@, playlist_id)]
    ELSE songs

\* add_playlist_to_song that replaces the list of the song
add_playlist_to_song_overwrites(songs, song_id, playlist_id) ==
  IF song_id \in DOMAIN songs /\ ~InList(playlist_id, songs[song_id].playlists)
    THEN [songs EXCEPT ![song_id].playlists = <<playlist_id>>]
    ELSE songs

\* add_playlist_to_song: the songs dict it leaves
add_playlist_to_song(songs, song_id, playlist_id) ==
  IF song_id \in DOMAIN songs /\ ~InList(playlist_id, songs[song_id].playlists)
    THEN [songs EXCEPT ![song_id].playlists = Append(@, playlist_id)]
    ELSE songs

\* store_artist_info: the artists dict it leaves
store_artist_info(artists, artist_uri, artist_name, playlist_key) ==
  IF artist_uri \in DOMAIN artists
    THEN IF ~InList(playlist_key, artists[artist_uri].playlist_ids)
           THEN [artists EXCEPT ![artist_uri].playlist_ids = Append(@, playlist_key)]
           ELSE artists
    ELSE Put(artists, artist_uri,
             [name |-> artist_name, uri |-> artist_uri,
              playlist_ids |-> <<playlist_key>>])

\* the loop over a track's artists (process_artist_tracks), each stored
RECURSIVE StoreTrackArtists(_, _, _)
StoreTrackArtists(artists, track_artists, playlist_key) ==
  IF track_artists = <<>> THEN artists
  ELSE StoreTrackArtists(
         store_artist_info(artists, Head(track_artists).uri,
                           safe_get(Head(track_artists).name, UnknownArtist),
                           playlist_key),
         Tail(track_artists), playlist_key)

\* track_info as process_artist_tracks builds it from the captured track
TrackInfo(track_data) ==
  [track_name |-> safe_get(track_data.name, UnknownTrack),
   artists_string |->
     Join([i \in 1..Len(track_data.artists) |->
             safe_get(track_data.artists[i].name, UnknownArtist)]),
   track_uri |-> track_data.uri]

\* ------------------------------------------------- the persisted documents
\* a document saved from a store that load_json_file read as {} carries no
\* total
NoTotal == -1

NoSongsFile == [exists |-> FALSE, songs |-> EmptyDict, order |-> <<>>, total_songs |-> 0]
NoPlaylistsFile == [exists |-> FALSE, playlists |-> EmptyDict, total_playlists |-> 0]
NoArtistsFile == [exists |-> FALSE, artists |-> EmptyDict, total_artists |-> 0]
NoMappingFile == [exists |-> FALSE, mapping |-> EmptyDict]

EmptyDisk ==
  [songs |-> NoSongsFile, playlists |-> NoPlaylistsFile,
   artists |-> NoArtistsFile, mapping |-> NoMappingFile]


\* ---------------------------------------------------------------- state
VARIABLES
  disk,                    \* the four documents under metadata/
  files,                   \* song ids with a media file under songs/
  pc,                      \* which tool holds a working set: idle, ingest, remover
  runs,                    \* scraper and cleanup runs started so far
  existing_songs,          \* SmartSongManager.existing_songs
  song_order,              \* insertion order of existing_songs
  existing_playlists,      \* SmartSongManager.existing_playlists
  existing_artists,        \* SmartSongManager.existing_artists
  uri_to_song_id,          \* SmartSongManager.uri_to_song_id
  name_artist_to_song_id,  \* SmartSongManager.name_artist_to_song_id
  batch,                   \* process_artist_tracks: artist_id, artist_name,
                           \* main_artist_uri, all_artist_tracks, position
  song_ids,                \* process_artist_tracks.song_ids
  new_songs_to_download,   \* process_artist_tracks.new_songs_to_download
  songs_db,                \* PlaylistRemover.songs_db
  playlists_db,            \* PlaylistRemover.playlists_db
  artists_db,              \* PlaylistRemover.artists_db
  mapping_db,              \* PlaylistRemover.mapping_db
  backups,                 \* the .backup_<time> side files: store and content
  cover,                   \* add_cover_art_urls.main: the loop and its counters
  last                     \* history: the operation completed last

manager_vars ==
  <<existing_songs, song_order, existing_playlists, existing_artists,
    uri_to_song_id, name_artist_to_song_id, batch, song_ids,
    new_songs_to_download>>

remover_vars == <<songs_db, playlists_db, artists_db, mapping_db>>

vars == <<disk, files, pc, runs, manager_vars, remover_vars, backups, cover, last>>

NoUri == <<>>
NoBatch ==
  [artist_id |-> "", artist_name |-> <<>>, main_artist_uri |-> NoUri,
   all_artist_tracks |-> <<>>, position |-> 0]

\* a document the remover has not loaded: the empty dict {}
NotLoadedSongs == [loaded |-> FALSE, songs |-> EmptyDict, order |-> <<>>, total_songs |-> 0]
NotLoadedPlaylists == [loaded |-> FALSE, playlists |-> EmptyDict, total_playlists |-> 0]
NotLoadedArtists == [loaded |-> FALSE, artists |-> EmptyDict, total_artists |-> 0]
NotLoadedMapping == [loaded |-> FALSE, mapping |-> EmptyDict]

ManagerIdle ==
  /\ existing_songs' = EmptyDict
  /\ song_order' = <<>>
  /\ existing_playlists' = EmptyDict
  /\ existing_artists' = EmptyDict
  /\ uri_to_song_id' = EmptyDict
  /\ name_artist_to_song_id' = EmptyDict
  /\ batch' = NoBatch
  /\ song_ids' = <<>>
  /\ new_songs_to_download' = <<>>

RemoverIdle ==
  /\ songs_db' = NotLoadedSongs
  /\ playlists_db' = NotLoadedPlaylists
  /\ artists_db' = NotLoadedArtists
  /\ mapping_db' = NotLoadedMapping

\* ------------------------------------------------- batch_artist_scraper
\* get_artist_name_from_database
get_artist_name_from_database(d, aid) ==
  IF /\ d.artists.exists
     /\ ArtistUri(aid) \in DOMAIN d.artists.artists
     /\ d.artists.artists[ArtistUri(aid)].name # <<>>
     /\ d.artists.artists[ArtistUri(aid)].name # UnknownArtist
    THEN d.artists.artists[ArtistUri(aid)].name
    ELSE <<>>

\* main: the artist name handed to process_artist_tracks
ArtistName(d, aid, tracks) ==
  LET stored == get_artist_name_from_database(d, aid)
  IN IF stored # <<>> THEN stored
     ELSE IF tracks[1].artists # <<>>
            THEN safe_get(tracks[1].artists[1].name, UnknownArtist)
            ELSE <<"Artist_", aid>>

\* process_artist_tracks: the uri of the first artist of the first track
\* that carries the artist's name
RECURSIVE MainArtistUri(_, _)
MainArtistUri(track_artists, artist_name) ==
  IF track_artists = <<>> THEN NoUri
  ELSE IF safe_get(Head(track_artists).name, <<"Unknown">>) = artist_name
         THEN Head(track_artists).uri
         ELSE MainArtistUri(Tail(track_artists), artist_name)

\* SmartSongManager(): load_existing_databases for a captured track list
IngestStart(aid, tracks) ==
  /\ pc = "idle"
  /\ runs < MaxRuns
  /\ runs' = runs + 1
  /\ pc' = "ingest"
  /\ existing_songs' = disk.songs.songs
  /\ song_order' = disk.songs.order
  /\ uri_to_song_id' = BuildUriIndex(disk.songs.songs, disk.songs.order, EmptyDict)
  /\ name_artist_to_song_id' =
       BuildNameIndex(disk.songs.songs, disk.songs.order, EmptyDict)
  /\ existing_playlists' = disk.playlists.playlists
  /\ existing_artists' = disk.artists.artists
  /\ batch' = [artist_id |-> aid,
               artist_name |-> ArtistName(disk, aid, tracks),
               main_artist_uri |->
                 MainArtistUri(tracks[1].artists, ArtistName(disk, aid, tracks)),
               all_artist_tracks |-> tracks,
               position |-> 1]
  /\ song_ids' = <<>>
  /\ new_songs_to_download' = <<>>
  /\ UNCHANGED <<disk, files, remover_vars, backups, cover, last>>

\* a song id that also depends on the uri of the track
TrackSongIdWithUri(track_info) ==
  generate_song_id(track_info.track_name, track_info.artists_string)
    \o <<track_info.track_uri>>

\* song_id = song_manager.generate_song_id(track_name, artists_string)
TrackSongId(track_info) ==
  generate_song_id(track_info.track_name, track_info.artists_string)

\* the entry of a song installed as new
NewSongEntry(track_info, playlist_key) ==
  [metadata |-> track_info, playlists |-> <<playlist_key>>, status |-> "pending"]

NoTrack == [name |-> <<>>, artists |-> <<>>, uri |-> "none"]

\* what the history keeps of the resolve before this one
PrevResolve ==
  IF last.op \in {"track", "ingest"} THEN last.resolve
  ELSE [track |-> NoTrack, song_id |-> NotFound, playlist |-> <<>>,
        is_new |-> FALSE]

\* process_artist_tracks: one pass of the loop over all_artist_tracks
ProcessTrack ==
  /\ pc = "ingest"
  /\ batch.position <= Len(batch.all_artist_tracks)
  /\ LET track_data == batch.all_artist_tracks[batch.position]
         playlist_key == PlaylistKey(batch.artist_id)
         track_info == TrackInfo(track_data)
         song_id == TrackSongId(track_info)
         existing_song ==
           find_existing_song(uri_to_song_id, name_artist_to_song_id, track_info)
         resolved == IF existing_song # NotFound THEN existing_song ELSE song_id
     IN /\ existing_artists' =
             StoreTrackArtists(existing_artists, track_data.artists, playlist_key)
        /\ IF existing_song # NotFound
             THEN /\ existing_songs' =
                       add_playlist_to_song(existing_songs, existing_song, playlist_key)
                  /\ UNCHANGED <<song_order, new_songs_to_download>>
             ELSE /\ existing_songs' =
                       Put(existing_songs, song_id, NewSongEntry(track_info, playlist_key))
                  /\ song_order' = IF song_id \in DOMAIN existing_songs
                                     THEN song_order ELSE Append(song_order, song_id)
                  /\ new_songs_to_download' = Append(new_songs_to_download, song_id)
        /\ song_ids' = Append(song_ids, resolved)
        /\ last' = [op |-> "track",
                    playlist |-> playlist_key,
                    resolve |-> [track |-> track_data, song_id |-> resolved,
                                 playlist |-> playlist_key,
                                 is_new |-> (existing_song = NotFound)],
                    prev |-> PrevResolve,
                    is_new |-> (existing_song = NotFound),
                    changed |-> (existing_song # NotFound
                                 /\ add_playlist_returns(existing_songs, existing_song,
                                                         playlist_key)),
                    uri_index |-> uri_to_song_id,
                    songs_before |-> existing_songs,
                    artists_before |-> existing_artists,
                    songs_after |-> existing_songs']
  /\ batch' = [batch EXCEPT !.position = @ + 1]
  /\ UNCHANGED <<disk, files, pc, runs, backups, cover, existing_playlists, uri_to_song_id,
                 name_artist_to_song_id, remover_vars>>


\* the k-th write of a save happens when no earlier write (nor it) raised;
\* fail_at = 0: no write raises
Written(k, fail_at) == fail_at = 0 \/ k < fail_at

FailPoints == 0..4

\* the documents save_databases (batch_artist_scraper) builds
SongsDocument(songs, order) ==
  [exists |-> TRUE, songs |-> songs, order |-> order,
   total_songs |-> Cardinality(DOMAIN songs)]

PlaylistsDocument(playlists) ==
  [exists |-> TRUE, playlists |-> playlists,
   total_playlists |-> Cardinality(DOMAIN playlists)]

ArtistsDocument(artists) ==
  [exists |-> TRUE, artists |-> artists,
   total_artists |-> Cardinality(DOMAIN artists)]

\* song_playlist_mapping of save_databases: regenerated from the songs
MappingDocument(songs) ==
  [exists |-> TRUE, mapping |-> [s \in DOMAIN songs |-> songs[s].playlists]]

\* save_databases(song_manager): songs, playlists, artists, mapping, in one
\* try block
save_databases(d, songs, order, playlists, artists, fail_at) ==
  [songs |-> IF Written(1, fail_at) THEN SongsDocument(songs, order) ELSE d.songs,
   playlists |->
     IF Written(2, fail_at) THEN PlaylistsDocument(playlists) ELSE d.playlists,
   artists |-> IF Written(3, fail_at) THEN ArtistsDocument(artists) ELSE d.artists,
   mapping |-> IF Written(4, fail_at) THEN MappingDocument(songs) ELSE d.mapping]

\* the number of entries of a list of song ids whose song is 'completed'
RECURSIVE CountCompleted(_, _)
CountCompleted(ids, songs) ==
  IF ids = <<>> THEN 0
  ELSE (IF Head(ids) \in DOMAIN songs /\ songs[Head(ids)].status = "completed"
          THEN 1 ELSE 0) + CountCompleted(Tail(ids), songs)

\* playlist_entry of process_artist_tracks; now: datetime.now(), read as the
\* number of the run
PlaylistEntry(name, ids, songs, now) ==
  [name |-> name,
   created_at |-> now,
   keys |-> {"songs"},
   songs |-> ids,
   song_ids |-> <<>>,
   total_tracks |-> Len(ids),
   successful_downloads |-> CountCompleted(ids, songs)]

Discography == <<" - Discography">>

\* the download loop: the status each outcome leaves
RECURSIVE ApplyDownloads(_, _, _)
ApplyDownloads(songs, to_download, ok) ==
  IF to_download = <<>> THEN songs
  ELSE ApplyDownloads(
         [songs EXCEPT ![Head(to_download)].status =
            IF Head(ok) THEN "completed" ELSE "failed"],
         Tail(to_download), Tail(ok))

Downloaded(to_download, ok) ==
  {to_download[i] : i \in {j \in 1..Len(to_download) : ok[j]}}

\* process_artist_tracks after the loop: the playlist entry, the main artist,
\* the save, the downloads of the new songs and the second save
IngestFinish(fail1, ok, fail2) ==
  /\ pc = "ingest"
  /\ batch.position > Len(batch.all_artist_tracks)
  /\ ok \in [1..Len(new_songs_to_download) -> BOOLEAN]
  /\ new_songs_to_download = <<>> => fail2 = 0
  /\ LET playlist_key == PlaylistKey(batch.artist_id)
         playlists1 ==
           Put(existing_playlists, playlist_key,
               PlaylistEntry(batch.artist_name \o Discography, song_ids, existing_songs,
                             runs))
         artists1 ==
           IF batch.main_artist_uri # NoUri
             THEN store_artist_info(existing_artists, batch.main_artist_uri,
                                    batch.artist_name, playlist_key)
             ELSE existing_artists
         disk1 == save_databases(disk, existing_songs, song_order, playlists1,
                                 artists1, fail1)
         songs2 == ApplyDownloads(existing_songs, new_songs_to_download, ok)
         playlists2 ==
           [playlists1 EXCEPT ![playlist_key].successful_downloads =
              Cardinality({i \in 1..Len(ok) : ok[i]})]
     IN IF new_songs_to_download = <<>>
          THEN /\ disk' = disk1
               /\ files' = files
               /\ last' = [op |-> "ingest", playlist |-> playlist_key,
                           saved |-> (fail1 = 0), resolve |-> PrevResolve,
                           pre_backups |-> backups,
                           pre_playlists |-> disk.playlists.playlists]
          ELSE /\ disk' = save_databases(disk1, songs2, song_order, playlists2,
                                         artists1, fail2)
               /\ files' = files \cup Downloaded(new_songs_to_download, ok)
               /\ last' = [op |-> "ingest", playlist |-> playlist_key,
                           saved |-> (fail2 = 0), resolve |-> PrevResolve,
                           pre_backups |-> backups,
                           pre_playlists |-> disk.playlists.playlists]
  /\ pc' = "idle"
  /\ ManagerIdle
  /\ UNCHANGED <<runs, remover_vars, backups, cover>>


\* ------------------------------------------------- remove_playlist.py
\* load_databases, for the documents main requires (songs and playlists) and
\* the two it loads when present
LoadSongs(d) ==
  [loaded |-> TRUE, songs |-> d.songs.songs, order |-> d.songs.order,
   total_songs |-> d.songs.total_songs]

LoadPlaylists(d) ==
  [loaded |-> TRUE, playlists |-> d.playlists.playlists,
   total_playlists |-> d.playlists.total_playlists]

LoadArtists(d) ==
  IF d.artists.exists /\ d.artists.total_artists # NoTotal
    THEN [loaded |-> TRUE, artists |-> d.artists.artists,
          total_artists |-> d.artists.total_artists]
    ELSE NotLoadedArtists

LoadMapping(d) ==
  IF d.mapping.exists
    THEN [loaded |-> TRUE, mapping |-> d.mapping.mapping]
    ELSE NotLoadedMapping

\* main: PlaylistRemover(), which goes on only with songs and playlists loaded
RemoverStart ==
  /\ pc = "idle"
  /\ disk.songs.exists
  /\ disk.playlists.exists
  /\ pc' = "remover"
  /\ songs_db' = LoadSongs(disk)
  /\ playlists_db' = LoadPlaylists(disk)
  /\ artists_db' = LoadArtists(disk)
  /\ mapping_db' = LoadMapping(disk)
  /\ last' = [op |-> "load"]
  /\ UNCHANGED <<disk, files, runs, manager_vars, backups, cover>>

\* main: choice 3
RemoverExit ==
  /\ pc = "remover"
  /\ pc' = "idle"
  /\ RemoverIdle
  /\ UNCHANGED <<disk, files, runs, manager_vars, backups, cover, last>>

\* find_playlist_by_name: the ids whose name matches (either contains the
\* other, case-insensitively)
find_playlist_by_name(playlists, playlist_name) ==
  {p \in DOMAIN playlists :
     \/ IsSubstring(Lower(playlist_name), Lower(playlists[p].name))
     \/ IsSubstring(Lower(playlists[p].name), Lower(playlist_name))}

\* get_songs_in_playlist: playlist_info.get('song_ids', [])
get_songs_in_playlist(playlists, playlist_id) ==
  IF playlist_id \in DOMAIN playlists /\ "song_ids" \in playlists[playlist_id].keys
    THEN playlists[playlist_id].song_ids
    ELSE <<>>

\* remove_playlist_from_songs: the songs dict it leaves (it edits the song's
\* own playlist list) and the action of each listed song
RECURSIVE remove_playlist_from_songs(_, _, _, _)
remove_playlist_from_songs(songs, playlist_id, ids, song_actions) ==
  IF ids = <<>> THEN [songs |-> songs, song_actions |-> song_actions]
  ELSE IF Head(ids) \in DOMAIN songs
    THEN LET song_playlists ==
               IF InList(playlist_id, songs[Head(ids)].playlists)
                 THEN ListRemove(songs[Head(ids)].playlists, playlist_id)
                 ELSE songs[Head(ids)].playlists
         IN remove_playlist_from_songs(
              [songs EXCEPT ![Head(ids)].playlists = song_playlists],
              playlist_id, Tail(ids),
              Put(song_actions, Head(ids),
                  IF song_playlists = <<>> THEN "remove" ELSE "keep"))
    ELSE remove_playlist_from_songs(songs, playlist_id, Tail(ids), song_actions)

\* clean_artists_database without the deletion of the artists it emptied
clean_artists_database_keeps_emptied(adb, playlist_id) ==
  IF ~adb.loaded THEN adb
  ELSE [adb EXCEPT !.artists =
          [a \in DOMAIN @ |->
             IF InList(playlist_id, @[a].playlist_ids)
               THEN [@[a] EXCEPT !.playlist_ids = ListRemove(@, playlist_id)]
               ELSE @[a]]]

\* clean_artists_database that only deletes the artists of this playlist
\* alone, and leaves the list of every other artist as it was
clean_artists_database_purges_only(adb, playlist_id) ==
  IF ~adb.loaded THEN adb
  ELSE [adb EXCEPT !.artists =
          Del(@, {a \in DOMAIN @ : @[a].playlist_ids = <<playlist_id>>})]

\* clean_artists_database
clean_artists_database(adb, playlist_id) ==
  IF ~adb.loaded THEN adb
  ELSE LET stripped ==
             [a \in DOMAIN adb.artists |->
                IF InList(playlist_id, adb.artists[a].playlist_ids)
                  THEN [adb.artists[a] EXCEPT
                          !.playlist_ids = ListRemove(@, playlist_id)]
                  ELSE adb.artists[a]]
           artists_to_remove ==
             {a \in DOMAIN adb.artists :
                /\ InList(playlist_id, adb.artists[a].playlist_ids)
                /\ stripped[a].playlist_ids = <<>>}
       IN [adb EXCEPT !.artists = Del(stripped, artists_to_remove)]

\* update_mapping_database
update_mapping_database(mdb, songs_to_remove) ==
  IF ~mdb.loaded THEN mdb
  ELSE [mdb EXCEPT !.mapping = Del(@, songs_to_remove)]

\* remove_songs_from_filesystem
remove_songs_from_filesystem(fs, songs_to_remove) == fs \ songs_to_remove

\* the working set save_databases (PlaylistRemover) leaves: the totals are
\* refreshed just before each write that is reached
RemoverTotals(sdb, pdb, adb, fail_at) ==
  [songs_db |-> [sdb EXCEPT !.total_songs = Cardinality(DOMAIN sdb.songs)],
   playlists_db |->
     IF Written(1, fail_at)
       THEN [pdb EXCEPT !.total_playlists = Cardinality(DOMAIN pdb.playlists)]
       ELSE pdb,
   artists_db |->
     IF Written(2, fail_at) /\ adb.loaded
       THEN [adb EXCEPT !.total_artists = Cardinality(DOMAIN adb.artists)]
       ELSE adb]

\* the documents save_databases (PlaylistRemover) leaves on disk
remover_save_databases(d, sdb, pdb, adb, mdb, fail_at) ==
  LET t == RemoverTotals(sdb, pdb, adb, fail_at)
  IN [songs |->
        IF Written(1, fail_at)
          THEN [exists |-> TRUE, songs |-> t.songs_db.songs,
                order |-> t.songs_db.order, total_songs |-> t.songs_db.total_songs]
          ELSE d.songs,
      playlists |->
        IF Written(2, fail_at)
          THEN [exists |-> TRUE, playlists |-> t.playlists_db.playlists,
                total_playlists |-> t.playlists_db.total_playlists]
          ELSE d.playlists,
      artists |->
        IF Written(3, fail_at) /\ adb.loaded
          THEN [exists |-> TRUE, artists |-> t.artists_db.artists,
                total_artists |-> t.artists_db.total_artists]
          ELSE d.artists,
      mapping |->
        IF Written(4, fail_at) /\ mdb.loaded
          THEN [exists |-> TRUE, mapping |-> mdb.mapping]
          ELSE d.mapping]

\* a write that save_databases never reaches cannot raise
CanFailAt(adb, mdb, fail_at) ==
  /\ fail_at = 3 => adb.loaded
  /\ fail_at = 4 => mdb.loaded

RECURSIVE DropFromOrder(_, _)
DropFromOrder(order, ids) ==
  IF order = <<>> THEN <<>>
  ELSE IF Head(order) \in ids THEN DropFromOrder(Tail(order), ids)
  ELSE <<Head(order)>> \o DropFromOrder(Tail(order), ids)

NoPlaylist == <<>>

\* the four dicts of the remover's working set
WorkingSet ==
  [songs |-> songs_db.songs, playlists |-> playlists_db.playlists,
   artists |-> artists_db.artists, mapping |-> mapping_db.mapping]


\* the earlier call this one retries: the same name, confirmed, its save failed
IsRetry(playlist_name) ==
  /\ last.op = "remove"
  /\ last.name = playlist_name
  /\ last.found
  /\ last.response
  /\ ~last.result

SearchNames == {<<"X">>, <<"Y">>}

\* remove_playlist(playlist_name): `chosen` is the id find_playlist_by_name
\* returns (NoPlaylist: no match, or the user quits the selection), `response`
\* the answer to the confirmation, fail_at the write of the save that raises
RemovePlaylist(playlist_name, chosen, response, fail_at) ==
  /\ pc = "remover"
  /\ LET matches == find_playlist_by_name(playlists_db.playlists, playlist_name)
         ids == get_songs_in_playlist(playlists_db.playlists, chosen)
         plan == remove_playlist_from_songs(songs_db.songs, chosen, ids, EmptyDict)
         songs_to_remove ==
           {sid \in DOMAIN plan.song_actions : plan.song_actions[sid] = "remove"}
         songs1 == [songs_db EXCEPT !.songs = Del(plan.songs, songs_to_remove),
                                    !.order = DropFromOrder(@, songs_to_remove)]
         playlists1 == [playlists_db EXCEPT !.playlists = Del(@, {chosen})]
         artists1 == clean_artists_database(artists_db, chosen)
         mapping1 == update_mapping_database(mapping_db, songs_to_remove)
         totals == RemoverTotals(songs1, playlists1, artists1, fail_at)
         \* the working set after each statement of the apply, in the order
         \* of the code: del playlists[playlist_id], del songs_db[song_id],
         \* clean_artists_database, update_mapping_database
         planned == [songs |-> plan.songs, playlists |-> playlists_db.playlists,
                     artists |-> artists_db.artists, mapping |-> mapping_db.mapping]
         step1 == [planned EXCEPT !.playlists = playlists1.playlists]
         step2 == [step1 EXCEPT !.songs = songs1.songs]
         step3 == [step2 EXCEPT !.artists = artists1.artists]
         step4 == [step3 EXCEPT !.mapping = mapping1.mapping]
         history ==
           [op |-> "remove", name |-> playlist_name, playlist |-> chosen,
            found |-> (chosen # NoPlaylist), response |-> response,
            fail_at |-> fail_at, result |-> FALSE,
            song_actions |-> EmptyDict, pre |-> WorkingSet, pre_files |-> files,
            pre_disk |-> disk, apply_steps |-> <<>>,
            retry |-> IsRetry(playlist_name),
            retry_target |-> IF IsRetry(playlist_name) THEN last.success_disk ELSE disk,
            success_disk |-> disk]
     IN IF chosen = NoPlaylist
          THEN \* not found: return False
               /\ matches = {} \/ Cardinality(matches) > 1
               /\ response /\ fail_at = 0
               /\ last' = history
               /\ UNCHANGED <<disk, files, remover_vars>>
          ELSE /\ chosen \in matches
               /\ IF ~response
                    THEN \* the plan is computed, the user declines: return False
                         /\ fail_at = 0
                         /\ songs_db' = [songs_db EXCEPT !.songs = plan.songs]
                         /\ last' = [history EXCEPT !.song_actions = plan.song_actions]
                         /\ UNCHANGED <<disk, files, playlists_db, artists_db, mapping_db>>
                    ELSE \* the removal and the save
                         /\ CanFailAt(artists1, mapping1, fail_at)
                         /\ songs_db' = totals.songs_db
                         /\ playlists_db' = totals.playlists_db
                         /\ artists_db' = totals.artists_db
                         /\ mapping_db' = mapping1
                         /\ files' = remove_songs_from_filesystem(files, songs_to_remove)
                         /\ disk' = remover_save_databases(disk, songs1, playlists1,
                                                           artists1, mapping1, fail_at)
                         /\ last' = [history EXCEPT
                                       !.song_actions = plan.song_actions,
                                       !.apply_steps = <<step1, step2, step3, step4>>,
                                       !.result = (fail_at = 0),
                                       !.success_disk =
                                         remover_save_databases(disk, songs1, playlists1,
                                                                artists1, mapping1, 0)]
  /\ UNCHANGED <<pc, runs, manager_vars, backups, cover>>

\* ------------------------------------------------------ song_cleanup_tool
Stores == {"songs", "playlists", "mapping", "artists"}

\* get_song_metadata_from_id(...)['playlists'] of a scanned song: the playlist
\* list of its record, none without a record
ScannedPlaylists(songs, song_id) ==
  IF song_id \in DOMAIN songs THEN songs[song_id].playlists ELSE <<>>

\* the songs of `selected`, in the order of the loop of
\* remove_songs_from_databases, that name playlist_key
RECURSIVE SongsNaming(_, _, _)
SongsNaming(songs, selected, playlist_key) ==
  IF selected = {} THEN <<>>
  ELSE LET song_id == CHOOSE x \in selected : TRUE
           rest == SongsNaming(songs, selected \ {song_id}, playlist_key)
       IN IF InList(playlist_key, ScannedPlaylists(songs, song_id))
            THEN <<song_id>> \o rest ELSE rest

\* remove_songs_from_databases: one playlist entry after playlist_songs.remove
\* of each of song_ids found in its 'songs'
RECURSIVE StripPlaylistEntry(_, _)
StripPlaylistEntry(entry, ids) ==
  IF ids = <<>> THEN entry
  ELSE IF InList(Head(ids), entry.songs)
         THEN StripPlaylistEntry(
                [entry EXCEPT !.songs = ListRemove(@, Head(ids)),
                              !.total_tracks = Len(entry.songs) - 1],
                Tail(ids))
         ELSE StripPlaylistEntry(entry, Tail(ids))

\* remove_songs_from_databases: the documents held in memory afterwards,
\* from the documents loaded (d: an absent file was loaded as {})
remove_songs_from_databases(d, selected) ==
  LET songs1 == Del(d.songs.songs, selected)
  IN [songs |->
        [exists |-> TRUE, songs |-> songs1,
         order |-> SelectSeq(d.songs.order, LAMBDA x : x \notin selected),
         total_songs |-> Cardinality(DOMAIN songs1)],
      playlists |->
        [exists |-> TRUE,
         playlists |->
           [k \in DOMAIN d.playlists.playlists |->
              StripPlaylistEntry(d.playlists.playlists[k],
                                 SongsNaming(d.songs.songs, selected, k))],
         total_playlists |->
           IF d.playlists.exists THEN d.playlists.total_playlists ELSE NoTotal],
      mapping |->
        [exists |-> TRUE, mapping |-> Del(d.mapping.mapping, selected)],
      artists |->
        [exists |-> TRUE, artists |-> d.artists.artists,
         total_artists |->
           IF d.artists.exists THEN d.artists.total_artists ELSE NoTotal]]

\* save_json_file: the side copies after saving the stores of `attempted`,
\* each copied before its write when its file exists
save_json_file_backups(bk, d, attempted) ==
  bk \cup {[store |-> st, content |-> d[st]] : st \in {x \in attempted : d[x].exists}}

\* save_all_databases: the files after the four saves; written[st] tells
\* whether save_json_file(st) returned True
save_all_databases(d, docs, written) ==
  [st \in Stores |-> IF written[st] THEN docs[st] ELSE d[st]]

\* the scanned songs: the media files and the songs of the database
identified_songs(d, fs) == fs \cup DOMAIN d.songs.songs

\* run_cleanup: `selected` are the songs chosen for removal, confirmed the
\* answer 'DELETE', written the outcome of each save; after 'DELETE' it prints
\* "Cleanup completed successfully!" (completed_successfully)
RunCleanup(selected, confirmed, written) ==
  /\ pc = "idle"
  /\ runs < MaxRuns
  /\ runs' = runs + 1
  /\ selected # {}
  /\ selected \subseteq identified_songs(disk, files)
  /\ LET docs == remove_songs_from_databases(disk, selected)
         history ==
           [op |-> "cleanup", selected |-> selected, confirmed |-> confirmed,
            written |-> written, pre_disk |-> disk, pre_files |-> files,
            pre_backups |-> backups,
            success_count |-> Cardinality({st \in Stores : written[st]}),
            completed_successfully |-> confirmed]
     IN IF confirmed
          THEN /\ files' = files \ selected
               /\ backups' = save_json_file_backups(backups, disk, Stores)
               /\ disk' = save_all_databases(disk, docs, written)
               /\ last' = history
          ELSE /\ written = [st \in Stores |-> TRUE]
               /\ last' = [history EXCEPT !.success_count = 0]
               /\ UNCHANGED <<disk, files, backups>>
  /\ UNCHANGED <<pc, manager_vars, remover_vars, cover>>

\* main (remove_playlist.py): load_databases returns False without the songs
\* or the playlists file, and main returns
RemoverRefuses ==
  /\ pc = "idle"
  /\ ~disk.songs.exists \/ ~disk.playlists.exists
  /\ last' = [op |-> "load_failed"]
  /\ UNCHANGED <<disk, files, pc, runs, manager_vars, remover_vars, backups, cover>>

\* ------------------------------------------------- add_cover_art_urls.py
\* `if i % 10 == 0:` the period of the progress save
SaveEvery == 10

\* the tool is not running
NoCoverRun ==
  [total |-> 0, i |-> 0, updated_count |-> 0, failed_count |-> 0,
   skipped_count |-> 0, persisted |-> 0]

\* main up to the loop: the songs file exists, `total` songs lack a cover art
\* url, the user confirms.  `persisted` counts the updates of this run that
\* the songs file holds.
CoverStart(total) ==
  /\ pc = "idle"
  /\ disk.songs.exists
  /\ total > 0
  /\ pc' = "cover"
  /\ cover' = [NoCoverRun EXCEPT !.total = total]
  /\ last' = [op |-> "cover_start"]
  /\ UNCHANGED <<disk, files, runs, manager_vars, remover_vars, backups>>

\* one pass of the loop over songs_without_cover: the song has a track id or
\* not, the request for the image url succeeds or raises
CoverItem(has_track_id, fetched) ==
  /\ pc = "cover"
  /\ cover.i < cover.total
  /\ has_track_id \/ fetched
  /\ LET i == cover.i + 1
     IN IF ~has_track_id
          THEN \* skipped_count += 1; continue
               cover' = [cover EXCEPT !.i = i, !.skipped_count = @ + 1]
          ELSE LET updated_count == cover.updated_count + (IF fetched THEN 1 ELSE 0)
               IN cover' = [cover EXCEPT
                              !.i = i,
                              !.updated_count = updated_count,
                              !.failed_count = @ + (IF fetched THEN 0 ELSE 1),
                              !.persisted = IF i % SaveEvery = 0
                                              THEN updated_count ELSE @]
  /\ last' = [op |-> "cover_item",
              outcome |-> IF ~has_track_id THEN "skipped"
                          ELSE IF fetched THEN "updated" ELSE "failed"]
  /\ UNCHANGED <<disk, files, pc, runs, manager_vars, remover_vars, backups>>

\* after the loop: the summary is set and the songs file written
CoverFinish ==
  /\ pc = "cover"
  /\ cover.i = cover.total
  /\ cover' = [cover EXCEPT !.persisted = cover.updated_count]
  /\ pc' = "idle"
  /\ last' = [op |-> "cover_finish"]
  /\ UNCHANGED <<disk, files, runs, manager_vars, remover_vars, backups>>


\* ---------------------------------------------------------------- catalogue
P1 == PlaylistKey("1")
P2 == PlaylistKey("2")

SongA == generate_song_id(<<"A">>, <<"X">>)
SongB == generate_song_id(<<"B">>, <<"Y">>)

\* A catalogue in the layout the remover reads: the member list of a playlist
\* under 'song_ids'.  song A is in both playlists, song B in the first.
ListedPlaylist(name, ids) ==
  [name |-> name, created_at |-> 0, keys |-> {"song_ids"}, songs |-> <<>>,
   song_ids |-> ids,
   total_tracks |-> Len(ids), successful_downloads |-> Len(ids)]

ListedSongs ==
  (SongA :> [metadata |-> TrackInfo(TrackAu), playlists |-> <<P1, P2>>,
             status |-> "completed"])
  @@ (SongB :> [metadata |-> [TrackInfo(TrackB) EXCEPT !.track_uri = ""],
                playlists |-> <<P1>>, status |-> "completed"])

ListedDisk ==
  [songs |-> SongsDocument(ListedSongs, <<SongA, SongB>>),
   playlists |->
     PlaylistsDocument(
       (P1 :> ListedPlaylist(<<"X">> \o Discography, <<SongA, SongB>>))
       @@ (P2 :> ListedPlaylist(<<"Y">> \o Discography, <<SongA>>))),
   artists |->
     ArtistsDocument(
       (ArtistX.uri :> [name |-> ArtistX.name, uri |-> ArtistX.uri,
                        playlist_ids |-> <<P1, P2>>])
       @@ (ArtistY.uri :> [name |-> ArtistY.name, uri |-> ArtistY.uri,
                           playlist_ids |-> <<P1>>])),
   mapping |-> MappingDocument(ListedSongs)]

NoOperation == [op |-> "none"]

\* no tool has been started
NoToolStarted ==
  /\ pc = "idle"
  /\ runs = 0
  /\ existing_songs = EmptyDict
  /\ song_order = <<>>
  /\ existing_playlists = EmptyDict
  /\ existing_artists = EmptyDict
  /\ uri_to_song_id = EmptyDict
  /\ name_artist_to_song_id = EmptyDict
  /\ batch = NoBatch
  /\ song_ids = <<>>
  /\ new_songs_to_download = <<>>
  /\ songs_db = NotLoadedSongs
  /\ playlists_db = NotLoadedPlaylists
  /\ artists_db = NotLoadedArtists
  /\ mapping_db = NotLoadedMapping
  /\ backups = {}
  /\ cover = NoCoverRun
  /\ last = NoOperation

Init ==
  /\ \/ disk = EmptyDisk /\ files = {}
     \/ disk = ListedDisk /\ files = {SongA, SongB}
  /\ NoToolStarted

\* the outcomes of the downloads of a run: every download succeeds
Succeed == {[i \in 1..n |-> TRUE] : n \in 0..MaxBatch}

Ingest(track_set, fails, outcomes) ==
  \/ \E aid \in ArtistIds, tracks \in Batches(track_set) : IngestStart(aid, tracks)
  \/ ProcessTrack
  \/ \E fail1 \in fails, fail2 \in fails, ok \in outcomes :
       IngestFinish(fail1, ok, fail2)

Remover(fails) ==
  \/ RemoverStart
  \/ \E playlist_name \in SearchNames, chosen \in PlaylistKeys \cup {NoPlaylist},
        response \in BOOLEAN, fail_at \in fails :
       RemovePlaylist(playlist_name, chosen, response, fail_at)
  \/ RemoverExit

\* the scraper and the remover, every write succeeding
Next == Ingest(CascadeTracks, {0}, Succeed) \/ Remover({0})

Spec == Init /\ [][Next]_vars

\* the remover, any write of a save failing
NextFaults == Remover(FailPoints)

SpecFaults == Init /\ [][NextFaults]_vars

\* the scraper alone
NextIngest == Ingest(Tracks, {0}, Succeed)

SpecIngest == Init /\ [][NextIngest]_vars


\* a catalogue of which one document is missing
Missing(d, st) ==
  [d EXCEPT ![st] =
     CASE st = "songs" -> NoSongsFile
       [] st = "playlists" -> NoPlaylistsFile
       [] st = "artists" -> NoArtistsFile
       [] st = "mapping" -> NoMappingFile]

InitMissing ==
  /\ \E st \in Stores : disk = Missing(ListedDisk, st)
  /\ files = {SongA, SongB}
  /\ NoToolStarted

AllWritten == {[st \in Stores |-> TRUE]}

Cleanup(outcomes) ==
  \E selected \in SUBSET {SongA, SongB}, confirmed \in BOOLEAN,
     written \in outcomes :
    RunCleanup(selected, confirmed, written)

\* the three tools started on a catalogue with a missing document
NextMissing ==
  \/ Ingest(SoloTracks, {0}, Succeed)
  \/ Remover({0})
  \/ RemoverRefuses
  \/ Cleanup(AllWritten)

SpecMissing == InitMissing /\ [][NextMissing]_vars

\* the three tools on a whole catalogue
NextTools ==
  \/ Ingest(SoloTracks, {0}, Succeed)
  \/ Remover({0})
  \/ Cleanup(AllWritten)

SpecTools == Init /\ [][NextTools]_vars

\* the outcomes of the four saves of save_all_databases: at most one fails
WriteOutcomes ==
  {w \in [Stores -> BOOLEAN] : Cardinality({st \in Stores : ~w[st]}) <= 1}

\* the remover, and the cleanup tool with a save that may fail
NextSaves == Remover({0}) \/ Cleanup(WriteOutcomes)

SpecSaves == Init /\ [][NextSaves]_vars

\* the cover art updater
NextCover ==
  \/ \E total \in 1..MaxCoverSongs : CoverStart(total)
  \/ \E has_track_id \in BOOLEAN, fetched \in BOOLEAN : CoverItem(has_track_id, fetched)
  \/ CoverFinish

SpecCover == Init /\ [][NextCover]_vars

\* the scraper alone, on the two spellings of one title
NextSpelled == Ingest(SpelledTracks, {0}, Succeed)

SpecSpelled == Init /\ [][NextSpelled]_vars

\* the scraper alone, on tracks that lack a title or an artist
NextUntitled == Ingest(UntitledTracks, {0}, Succeed)

SpecUntitled == Init /\ [][NextUntitled]_vars

\* ================================================================ claims
\* a remove_playlist call that went through the removal and saved
RemovalCompleted == pc = "remover" /\ last.op = "remove" /\ last.result

\* the scraper recorded song_id as a member of the playlist: it is in the
\* member list the scraper writes, under 'songs'
RecordedByIngestion(playlists, playlist_id, song_id) ==
  /\ playlist_id \in DOMAIN playlists
  /\ "songs" \in playlists[playlist_id].keys
  /\ InList(song_id, playlists[playlist_id].songs)

\* C1: a song the scraper recorded in the removed playlist P and in one other
\* playlist Q stays, with playlists = [Q]; a song it recorded in P alone
\* loses its record and its mapping entry.
C1_CascadeTwoPlaylistSong ==
  RemovalCompleted =>
    \A s \in DOMAIN last.pre.songs :
      RecordedByIngestion(last.pre.playlists, last.playlist, s) =>
        /\ \A q \in PlaylistKeys \ {last.playlist} :
             Range(last.pre.songs[s].playlists) = {last.playlist, q} =>
               /\ s \in DOMAIN songs_db.songs
               /\ songs_db.songs[s].playlists = <<q>>
        /\ last.pre.songs[s].playlists = <<last.playlist>> =>
             /\ s \notin DOMAIN songs_db.songs
             /\ s \notin DOMAIN mapping_db.mapping

\* a save that wrote all four documents has just ended
WriteCycleCompleted ==
  \/ last.op = "ingest" /\ last.saved
  \/ last.op = "remove" /\ last.result

\* C2: after a completed write cycle the persisted mapping has exactly the
\* songs of the songs store, each with the song's own playlist list.
C2_MappingConsistency ==
  WriteCycleCompleted =>
    /\ DOMAIN disk.mapping.mapping = DOMAIN disk.songs.songs
    /\ \A s \in DOMAIN disk.songs.songs :
         disk.mapping.mapping[s] = disk.songs.songs[s].playlists

\* C3: after a completed remove_playlist(P) no song holds P, and no song
\* holds a playlist id that the playlist store lacks.
C3_ReferentialIntegrity ==
  RemovalCompleted =>
    \A s \in DOMAIN songs_db.songs :
      /\ ~InList(last.playlist, songs_db.songs[s].playlists)
      /\ Range(songs_db.songs[s].playlists) \subseteq DOMAIN playlists_db.playlists

\* C4: a remove_playlist call that found its playlist and was declined leaves
\* the four stores of the working set as they were.
C4_PlanningIsPure ==
  (pc = "remover" /\ last.op = "remove" /\ last.found /\ ~last.response) =>
    WorkingSet = last.pre

\* C5: a confirmed remove_playlist(P) that retries, on the same working set
\* and with every write succeeding, a call whose save failed returns True and
\* persists what the first call would have persisted had its save succeeded.
C5_FailedApplyCanBeRetried ==
  (pc = "remover" /\ last.op = "remove" /\ last.retry
     /\ last.response /\ last.fail_at = 0) =>
    /\ last.result
    /\ disk = last.retry_target

\* a remove_playlist call that found its playlist and was confirmed
RemovalApplied ==
  pc = "remover" /\ last.op = "remove" /\ last.found /\ last.response

\* C6: remove_playlist(P) deletes every artist whose playlist ids were exactly
\* {P}, and leaves every artist whose ids were {P, Q} with playlist_ids = [Q].
C6_ArtistPurge ==
  RemovalApplied =>
    \A a \in DOMAIN last.pre.artists :
      LET ids == last.pre.artists[a].playlist_ids
      IN /\ Range(ids) = {last.playlist} => a \notin DOMAIN artists_db.artists
         /\ \A q \in PlaylistKeys \ {last.playlist} :
              Range(ids) = {last.playlist, q} =>
                /\ a \in DOMAIN artists_db.artists
                /\ artists_db.artists[a].playlist_ids = <<q>>

\* one removal purged an artist of the playlist alone and kept an artist of
\* two playlists
C6_Witness ==
  /\ RemovalApplied
  /\ \E a, b \in DOMAIN last.pre.artists :
       /\ last.pre.artists[a].playlist_ids = <<last.playlist>>
       /\ a \notin DOMAIN artists_db.artists
       /\ Len(last.pre.artists[b].playlist_ids) = 2
       /\ InList(last.playlist, last.pre.artists[b].playlist_ids)
       /\ b \in DOMAIN artists_db.artists

\* every artist record has a playlist id, and each of its ids is a playlist
ArtistsReferToPlaylists(artists, playlists) ==
  \A a \in DOMAIN artists :
    /\ artists[a].playlist_ids # <<>>
    /\ Range(artists[a].playlist_ids) \subseteq DOMAIN playlists

ConvergencePair ==
  /\ last.op = "track"
  /\ last.prev.track = TrackAu
  /\ last.resolve.track = TrackA

\* both resolves gave one song id, and one record has this title and artist
Converged ==
  /\ last.resolve.song_id = last.prev.song_id
  /\ Cardinality({s \in DOMAIN last.songs_after :
                    TrackSongId(last.songs_after[s].metadata) = SongA}) = 1

UriNotTaken ==
  "u1" \in DOMAIN last.uri_index => last.uri_index["u1"] = SongA

DuplicateIngest ==
  /\ last.op = "track"
  /\ last.prev.track = TrackAu
  /\ last.prev.is_new
  /\ last.resolve.track = TrackAu
  /\ last.prev.playlist # last.resolve.playlist

\* C9: ingesting {A, X, u1} under one playlist and then the identical track
\* under another leaves one record of the song, whose playlist list is the
\* first playlist then the second.
C9_DuplicateIngest ==
  DuplicateIngest =>
    /\ last.resolve.song_id = last.prev.song_id
    /\ ~last.is_new
    /\ Cardinality({s \in DOMAIN existing_songs :
                      existing_songs[s].metadata = TrackInfo(TrackAu)}) = 1
    /\ existing_songs[last.resolve.song_id].playlists =
         <<last.prev.playlist, last.resolve.playlist>>

C9_Witness ==
  /\ DuplicateIngest
  /\ pc = "ingest"
  /\ Len(existing_songs[SongA].playlists) = 2

\* add_playlist_to_song(S, P) on the songs of a working set: what two calls
\* in a row return and leave
AttachTwice(songs, s, p) ==
  LET once == add_playlist_to_song(songs, s, p)
  IN /\ add_playlist_returns(songs, s, p) <=> ~InList(p, songs[s].playlists)
     /\ IF add_playlist_returns(songs, s, p)
          THEN once = [songs EXCEPT ![s].playlists = Append(@, p)]
          ELSE once = songs
     /\ ~add_playlist_returns(once, s, p)
     /\ add_playlist_to_song(once, s, p) = once

\* C10: add_playlist_to_song inserts the playlist only if absent and returns
\* whether it did; a second call returns False and changes nothing; no song of
\* the working set or of the persisted store lists a playlist twice.
C10_IdempotentAttach ==
  /\ \A s \in DOMAIN existing_songs : \A p \in PlaylistKeys :
       AttachTwice(existing_songs, s, p)
  /\ \A s \in DOMAIN existing_songs : NoDup(existing_songs[s].playlists)
  /\ \A s \in DOMAIN disk.songs.songs : NoDup(disk.songs.songs[s].playlists)
  /\ (last.op = "track" /\ ~last.is_new) =>
       (last.changed <=> last.songs_after # last.songs_before)

\* the scraper attached a second playlist to a song it had found
C10_Witness ==
  /\ last.op = "track"
  /\ ~last.is_new
  /\ last.changed
  /\ Len(last.songs_after[last.resolve.song_id].playlists) = 2

\* C11: processing a track leaves every song that was in the working set in
\* it, with every playlist id it held, and every artist with every playlist
\* id it held.
C11_IngestionKeepsReferences ==
  last.op = "track" =>
    /\ \A s \in DOMAIN last.songs_before :
         /\ s \in DOMAIN last.songs_after
         /\ Range(last.songs_before[s].playlists)
              \subseteq Range(last.songs_after[s].playlists)
    /\ \A a \in DOMAIN last.artists_before :
         /\ a \in DOMAIN existing_artists
         /\ Range(last.artists_before[a].playlist_ids)
              \subseteq Range(existing_artists[a].playlist_ids)

\* the track just resolved carries a uri that the uri index of the run holds
UriIndexed ==
  /\ last.resolve.track.uri # ""
  /\ last.resolve.track.uri \in DOMAIN uri_to_song_id

\* the name+artist key of the track just resolved is in the name index
NameIndexed ==
  LET t == TrackInfo(last.resolve.track)
      k == NameArtistKey(t.track_name, t.artists_string)
  IN k # <<>> /\ k \in DOMAIN name_artist_to_song_id

\* C12: a track whose uri is indexed resolves to the song of that uri, whatever
\* its title and artist; otherwise a track whose name+artist key is indexed
\* resolves to the song of that key; a new id, the generated one, is installed
\* exactly when neither is indexed.
C12_LookupOrder ==
  last.op = "track" =>
    LET t == TrackInfo(last.resolve.track)
        k == NameArtistKey(t.track_name, t.artists_string)
    IN /\ UriIndexed =>
            last.resolve.song_id = uri_to_song_id[last.resolve.track.uri]
       /\ (~UriIndexed /\ NameIndexed) =>
            last.resolve.song_id = name_artist_to_song_id[k]
       /\ last.is_new <=> (~UriIndexed /\ ~NameIndexed)
       /\ last.is_new => last.resolve.song_id = TrackSongId(t)

\* a track resolved by its uri to a song of another title, while its own
\* name+artist key is indexed to a different song
C12_Witness ==
  /\ last.op = "track"
  /\ UriIndexed
  /\ NameIndexed
  /\ last.resolve.song_id # TrackSongId(TrackInfo(last.resolve.track))
  /\ ~last.is_new

\* the resolve held in r hit a song by the name+artist key while its track
\* carried a uri that the index in uri_index lacked
HitByNameWithNewUri(r, uri_index) ==
  /\ r.track.uri \notin {"", "none"}
  /\ r.track.uri \notin DOMAIN uri_index
  /\ ~r.is_new

\* C13: when a track with an unindexed uri u resolves by its name+artist key
\* to a song S, u is indexed to S afterwards, a track resolved next with uri u
\* resolves to S, and the resolve removes no entry of the uri index.
C13_IndexCompletenessMonotone ==
  last.op = "track" =>
    /\ HitByNameWithNewUri(last.resolve, last.uri_index) =>
         /\ last.resolve.track.uri \in DOMAIN uri_to_song_id
         /\ uri_to_song_id[last.resolve.track.uri] = last.resolve.song_id
    /\ (HitByNameWithNewUri(last.prev, last.uri_index)
          /\ last.resolve.track.uri = last.prev.track.uri) =>
         last.resolve.song_id = last.prev.song_id
    /\ \A u \in DOMAIN last.uri_index :
         u \in DOMAIN uri_to_song_id /\ uri_to_song_id[u] = last.uri_index[u]

\* the track just passed by the loop has no title or no artist
Unresolvable ==
  \/ Strip(last.resolve.track.name) = <<>>
  \/ last.resolve.track.artists = <<>>

\* C14: a track without a title or without an artist leaves the songs of the
\* working set as they were (no record created, no playlist attached), and
\* the batch does not count it among the tracks it processed: its list of
\* song ids is shorter than the number of tracks passed.
C14_UnresolvableSkipped ==
  (last.op = "track" /\ Unresolvable) =>
    /\ last.songs_after = last.songs_before
    /\ Len(song_ids) < batch.position - 1

\* C15: every persisted document carries the count of its records: total_songs
\* is the number of songs, total_playlists the number of playlists,
\* total_artists the number of artists, after any save of the scraper, the
\* remover and the cleanup tool.
C15_CountIntegrity ==
  /\ disk.songs.exists =>
       disk.songs.total_songs = Cardinality(DOMAIN disk.songs.songs)
  /\ disk.playlists.exists =>
       disk.playlists.total_playlists = Cardinality(DOMAIN disk.playlists.playlists)
  /\ disk.artists.exists =>
       disk.artists.total_artists = Cardinality(DOMAIN disk.artists.artists)

\* a side copy of the document that the store held before the save
SnapshotTaken(pre_disk, st) ==
  [store |-> st, content |-> pre_disk[st]] \in backups

\* C16: a save of remove_playlist or of the cleanup tool leaves, for every
\* store it overwrote, a side copy equal to the document persisted before
\* the save; a save of the scraper adds no side copy.
C16_SnapshotBeforeDestructiveWrites ==
  /\ (pc = "remover" /\ last.op = "remove" /\ last.found /\ last.response) =>
       \A st \in Stores :
         (last.pre_disk[st].exists /\ disk[st] # last.pre_disk[st]) =>
           SnapshotTaken(last.pre_disk, st)
  /\ (last.op = "cleanup" /\ last.confirmed) =>
       \A st \in Stores :
         (last.pre_disk[st].exists /\ last.written[st]) =>
           SnapshotTaken(last.pre_disk, st)
  /\ last.op = "ingest" => backups = last.pre_backups

\* the store that the k-th write of PlaylistRemover.save_databases writes
RemoverWrite(k) ==
  CASE k = 1 -> "songs" [] k = 2 -> "playlists" [] k = 3 -> "artists"
    [] k = 4 -> "mapping"

\* C17: when one write of a save fails, the writes of the other stores are
\* still made: after a remove_playlist whose k-th write failed every other
\* store holds the document a save without failure writes; after a cleanup
\* every store whose save returned True holds its new document and the tally
\* counts them.
C17_IndependentStoreWrites ==
  /\ (pc = "remover" /\ last.op = "remove" /\ last.found /\ last.response
        /\ last.fail_at # 0) =>
       \A k \in 1..4 :
         k # last.fail_at => disk[RemoverWrite(k)] = last.success_disk[RemoverWrite(k)]
  /\ (last.op = "cleanup" /\ last.confirmed) =>
       /\ \A st \in Stores : ~last.written[st] => disk[st] = last.pre_disk[st]
       /\ last.success_count = Cardinality({st \in Stores : last.written[st]})

\* C18: a tool started with a persisted store missing is not stopped by it:
\* the remover does not give up, and the remover and the scraper hold each
\* store that has a file as the file has it and each store without a file
\* empty.
C18_StoreNotFoundNeverFatal ==
  /\ last.op # "load_failed"
  /\ (pc = "remover" /\ last.op = "load") =>
       /\ songs_db.songs = disk.songs.songs
       /\ playlists_db.playlists = disk.playlists.playlists
       /\ artists_db.artists = disk.artists.artists
       /\ mapping_db.mapping = disk.mapping.mapping
  /\ (pc = "ingest" /\ batch.position = 1) =>
       /\ existing_songs = disk.songs.songs
       /\ existing_playlists = disk.playlists.playlists
       /\ existing_artists = disk.artists.artists

\* the playlists other than the removed one that the song still references
\* and that the playlist store holds
LiveReferences(songs, playlists, song_id, playlist_id) ==
  {p \in Range(songs[song_id].playlists) : p # playlist_id /\ p \in DOMAIN playlists}

\* C19: a confirmed remove_playlist whose save succeeds deletes the playlist
\* record and classifies every listed song the songs store holds (a listed
\* song the store does not hold gets no action), counting a reference of a
\* song to a playlist the playlist store does not hold as absent: the song
\* is removed exactly when no other playlist of the store references it.
C19_DanglingReferencesDoNotAbort ==
  (pc = "remover" /\ last.op = "remove" /\ last.found /\ last.response
     /\ last.fail_at = 0) =>
    LET ids == get_songs_in_playlist(last.pre.playlists, last.playlist)
        present == {s \in Range(ids) : s \in DOMAIN last.pre.songs}
    IN /\ last.result
       /\ last.playlist \notin DOMAIN disk.playlists.playlists
       /\ DOMAIN last.song_actions = present
       /\ \A s \in present :
            last.song_actions[s] =
              IF LiveReferences(last.pre.songs, last.pre.playlists, s, last.playlist) = {}
                THEN "remove" ELSE "keep"

\* C20: at every point of a run of the cover art updater the number of
\* songs updated in memory and not yet written to the songs file is at most
\* the period of the progress save, whatever the outcomes of the songs
\* (updated, failed or skipped).
C20_BoundedLoss ==
  pc = "cover" => cover.updated_count - cover.persisted <= SaveEvery

\* the song ids a playlist record lists, under either key
PlaylistMembers(entry) == Range(entry.songs) \cup Range(entry.song_ids)

\* the four documents agree: the mapping has exactly the songs of the songs
\* store, each with the song's own playlists, and every member of a playlist
\* is a song of the songs store
StoresAgree(d) ==
  /\ DOMAIN d.mapping.mapping = DOMAIN d.songs.songs
  /\ \A s \in DOMAIN d.songs.songs \cap DOMAIN d.mapping.mapping :
       Range(d.mapping.mapping[s]) = Range(d.songs.songs[s].playlists)
  /\ \A p \in DOMAIN d.playlists.playlists :
       PlaylistMembers(d.playlists.playlists[p]) \subseteq DOMAIN d.songs.songs

\* C21: when the save of remove_playlist stops at one of its writes, on
\* persisted documents that agreed before the call, the persisted documents
\* still agree.
C21_ConsistentCheckpoints ==
  (pc = "remover" /\ last.op = "remove" /\ last.found /\ last.response
     /\ last.fail_at # 0 /\ StoresAgree(last.pre_disk)) =>
    StoresAgree(disk)

\* C22: remove_playlist returns True, and the cleanup tool prints that the
\* cleanup completed successfully, only when the songs, playlists, artists
\* and mapping files were all written by that run.
C22_SuccessMeansAllSaved ==
  /\ (pc = "remover" /\ last.op = "remove" /\ last.result) =>
       /\ last.fail_at = 0
       /\ last.pre_disk.artists.exists
       /\ last.pre_disk.mapping.exists
  /\ (last.op = "cleanup" /\ last.completed_successfully) =>
       \A st \in Stores : last.written[st]

\* the songs a confirmed remove_playlist marked 'remove'
MarkedRemove == {s \in DOMAIN last.song_actions : last.song_actions[s] = "remove"}

\* the songs a confirmed remove_playlist marked 'keep'
MarkedKeep == {s \in DOMAIN last.song_actions : last.song_actions[s] = "keep"}

\* the artists the apply deleted
Purged == DOMAIN last.pre.artists \ DOMAIN last.apply_steps[Len(last.apply_steps)].artists

\* the working set holds none of the songs marked 'remove', in songs or mapping
RemovedSongsGone(ws) ==
  MarkedRemove \cap (DOMAIN ws.songs \cup DOMAIN ws.mapping) = {}

\* C23: in the apply of remove_playlist the songs marked 'remove' and their
\* mapping entries go first, the purged artists next, the playlist record
\* after them, and at the end the mapping entry of every song marked 'keep'
\* is the song's playlist list.
C23_ApplyOrdering ==
  (pc = "remover" /\ last.op = "remove" /\ last.found /\ last.response) =>
    /\ \A i \in 1..Len(last.apply_steps) :
         LET ws == last.apply_steps[i]
         IN /\ Purged \cap DOMAIN ws.artists # Purged => RemovedSongsGone(ws)
            /\ last.playlist \notin DOMAIN ws.playlists =>
                 /\ RemovedSongsGone(ws)
                 /\ Purged \cap DOMAIN ws.artists = {}
    /\ LET ws == last.apply_steps[Len(last.apply_steps)]
       IN \A s \in MarkedKeep \cap DOMAIN ws.mapping :
            ws.mapping[s] = ws.songs[s].playlists

\* a confirmed cleanup whose four saves succeeded has just ended
CleanupSaved ==
  /\ last.op = "cleanup"
  /\ last.confirmed
  /\ \A st \in Stores : last.written[st]

\* C24: after the cleanup tool removed a song that the songs store held, the
\* persisted songs store and mapping lack it and no persisted playlist lists
\* it under 'songs'.
C24_SongRemovalPropagates ==
  CleanupSaved =>
    \A s \in last.selected \cap DOMAIN last.pre_disk.songs.songs :
      /\ s \notin DOMAIN disk.songs.songs
      /\ s \notin DOMAIN disk.mapping.mapping
      /\ \A p \in DOMAIN disk.playlists.playlists :
           ~InList(s, disk.playlists.playlists[p].songs)

\* C25: a saved ingestion for a playlist id that the playlist store already
\* held leaves the created_at of that record as it was, and neither an
\* ingestion nor a cleanup deletes a playlist record.
C25_PlaylistCreatedOnce ==
  /\ (last.op = "ingest" /\ last.saved) =>
       /\ DOMAIN last.pre_playlists \subseteq DOMAIN disk.playlists.playlists
       /\ last.playlist \in DOMAIN last.pre_playlists =>
            disk.playlists.playlists[last.playlist].created_at =
              last.pre_playlists[last.playlist].created_at
  /\ (last.op = "cleanup" /\ last.confirmed) =>
       DOMAIN last.pre_disk.playlists.playlists \subseteq DOMAIN disk.playlists.playlists

\* the download counter of the persisted playlist p is the number of its
\* members whose song is 'completed', and at most its total_tracks
DownloadCounterRight(p) ==
  LET entry == disk.playlists.playlists[p]
  IN /\ entry.successful_downloads = CountCompleted(entry.songs, disk.songs.songs)
     /\ entry.successful_downloads <= entry.total_tracks

\* C26: after a saved ingestion for playlist P the download counter of P is
\* right, and after a saved cleanup the download counter of every playlist
\* the scraper wrote is right.
C26_DownloadCounterIntegrity ==
  /\ (last.op = "ingest" /\ last.saved) => DownloadCounterRight(last.playlist)
  /\ CleanupSaved =>
       \A p \in DOMAIN disk.playlists.playlists :
         "songs" \in disk.playlists.playlists[p].keys => DownloadCounterRight(p)

\* the loop has just processed, as second or later track of the batch, a
\* track with the title and the artists of the track before it, which was
\* installed as new
RepeatedInBatch ==
  /\ pc = "ingest"
  /\ last.op = "track"
  /\ batch.position > 2
  /\ last.prev.is_new
  /\ last.prev.track.name = last.resolve.track.name
  /\ last.prev.track.artists = last.resolve.track.artists

\* C27: a track of a batch with the title and artists of a track installed as
\* new just before it in the same batch resolves to that song as existing;
\* no song is queued for download twice and none is listed twice in the
\* members of the playlist.
C27_InstalledOncePerBatch ==
  /\ RepeatedInBatch =>
       /\ ~last.is_new
       /\ last.resolve.song_id = last.prev.song_id
  /\ pc = "ingest" =>
       /\ NoDup(new_songs_to_download)
       /\ NoDup(song_ids)

\* in the documents d, the members of every playlist are exactly the songs
\* of the songs store that name the playlist
MembershipAgrees(d) ==
  \A p \in DOMAIN d.playlists.playlists :
    PlaylistMembers(d.playlists.playlists[p]) =
      {s \in DOMAIN d.songs.songs : InList(p, d.songs.songs[s].playlists)}

\* C28: after a saved ingestion or a saved cleanup a song is a member of a
\* persisted playlist exactly when the persisted songs store holds it and
\* its playlist list names the playlist.
C28_MembershipAgreesBothWays ==
  (\/ last.op = "ingest" /\ last.saved
   \/ CleanupSaved) =>
    MembershipAgrees(disk)

\* C29: a remove_playlist call that returns False leaves every media file
\* in place, and a media file that a call deleted belongs to a song that the
\* persisted songs store no longer holds.
C29_FilesDeletedOnlyWhenPersisted ==
  (pc = "remover" /\ last.op = "remove") =>
    /\ ~last.result => files = last.pre_files
    /\ \A s \in last.pre_files \ files : s \notin DOMAIN disk.songs.songs

\* between the stores `before` and `after` (songs, playlists, artists,
\* mapping), everything that does not name playlist P is the same
FrameKept(before, after, P) ==
  /\ \A q \in DOMAIN before.playlists \ {P} :
       q \in DOMAIN after.playlists /\ after.playlists[q] = before.playlists[q]
  /\ \A s \in DOMAIN before.songs :
       ~InList(P, before.songs[s].playlists) =>
         /\ s \in DOMAIN after.songs /\ after.songs[s] = before.songs[s]
         /\ s \in DOMAIN before.mapping =>
              s \in DOMAIN after.mapping /\ after.mapping[s] = before.mapping[s]
  /\ \A a \in DOMAIN before.artists :
       ~InList(P, before.artists[a].playlist_ids) =>
         a \in DOMAIN after.artists /\ after.artists[a] = before.artists[a]

\* the persisted stores, as the four dicts
Persisted(d) ==
  [songs |-> d.songs.songs, playlists |-> d.playlists.playlists,
   artists |-> d.artists.artists, mapping |-> d.mapping.mapping]

\* C30: a completed remove_playlist(P) leaves as they were, in the persisted
\* stores, every playlist other than P, every song whose playlist list did
\* not name P with its mapping entry, and every artist whose playlist ids
\* did not name P.
C30_CascadeFrame ==
  RemovalCompleted =>
    FrameKept(Persisted(last.pre_disk), Persisted(disk), last.playlist)

====
